---------------------------- MODULE Spec2Model ----------------------------
(***************************************************************************)
(* Control plane of the queue-driven GPU task orchestrator:                *)
(*   - the facade (orchestrator_api.py) that admits jobs,                  *)
(*   - the job store (DynamoDB table task_store),                          *)
(*   - the two work queues (GPU lane, CPU lane) with their dead-letter     *)
(*     companions (sqs_stack.py, setup_cpu_queue.py),                      *)
(*   - the worker adapters (the exception-driven adapter of                *)
(*     comfyui-api-service/ and paid-api-service/, called variant "A", and *)
(*     the boolean-returning adapter of orchestrator/, called variant "B"),*)
(*   - the worker host and the idle watcher (alarm_stack.py,               *)
(*     lambda_shutdown.py).                                                *)
(* Time is abstracted: a visibility timeout, a metric sample or a retention*)
(* expiry is an action that may happen whenever its untimed guard holds.   *)
(***************************************************************************)
EXTENDS Integers, FiniteSets, Sequences, TLC

(* ------------------------------ bounds --------------------------------- *)
\* number of job ids the facade may generate in one behaviour
MaxJobs == 1
\* number of injected infrastructure faults (store, queue, EC2 API errors)
MaxFaults == 1

(* ------------------------- program constants --------------------------- *)
\* sqs_stack.py: max_receive_count=3 ; setup_cpu_queue.py: MAX_RECEIVE_COUNT
MAX_RECEIVE_COUNT == 3
\* orchestrator/sqs_to_comfy_adapter.py: MAX_RETRIES
MAX_RETRIES == 3
\* alarm_stack.py: evaluation_periods=6, datapoints_to_alarm=6
EVALUATION_PERIODS == 6
\* alarm_stack.py: threshold=0
ALARM_THRESHOLD == 0
\* comfyui-api-service/sqs_to_comfy_adapter.py: max_consecutive_errors
MAX_CONSECUTIVE_ERRORS == 10

\* main_loop: VisibilityTimeout of receive_message on the GPU lane (seconds)
VISIBILITY_GPU == 300
\* paid-api-service main_loop: VisibilityTimeout on the CPU lane (seconds)
VISIBILITY_CPU == 600
\* process_task: timeout of the POST that submits the request to the engine
SUBMIT_TIMEOUT == 30
\* poll_comfyui_status / poll_api_status: default of the parameter timeout
POLL_TIMEOUT == 600

\* poll_comfyui_status: timeout of one status request (seconds)
GET_TIMEOUT == 10
\* poll_comfyui_status of variant A: sleep after a non-final status
POLL_SLEEP == 2
\* poll_comfyui_status of variant A: sleep after a request error
ERROR_SLEEP == 5
\* orchestrator/sqs_to_comfy_adapter.py: COMFY_POLL_INTERVAL
COMFY_POLL_INTERVAL == 5

JobIds == 1..MaxJobs
Lanes == {"gpu", "cpu"}
Adapters == {"gpu", "cpu"}
\* the adapter processes that can exist: the one of each lane and a second
\* instance of the GPU lane's program receiving from the same queue
Receivers == Adapters \cup {"gpu2"}
\* SQS_QUEUE_URL of an adapter process: the lane it receives from
QueueOf(a) == IF a = "gpu2" THEN "gpu" ELSE a
GpuRoutes == {"/api/v1/camera-angle/jobs", "/api/v1/qwen-image-edit/jobs"}
CpuRoutes == {"/api/v1/face-mask/tasks", "/api/v1/full-face-swap/tasks"}
Routes == GpuRoutes \cup CpuRoutes

\* Python truthiness of an optional string: None and "" are both falsy.
\* The model writes None as "".
Truthy(s) == s # ""

VARIABLES
    store,        \* job store: job id -> record (status "absent" = no item)
    nextJob,      \* number of job ids generated so far (uuid4, never reused)
    msg,          \* queue message of job j: lane, state, receive count
    hostState,    \* EC2 state of the worker host
    gpuVariant,   \* which adapter program runs on the GPU host ("A" or "B")
    pc,           \* adapter -> position in its loop
    cur,          \* adapter -> job id of the message it holds (0 = none)
    shutdown_flag,\* adapter -> shutdown_flag global (variant A only)
    emptySamples, \* consecutive breaching datapoints of the alarm metric
    alarmState,   \* state of alarm QueueEmptyFor30Min
    alarmEvent,   \* an alarm notification is on its way to the lambda
    faults,       \* number of faults injected so far
    lastOp,       \* response and effects of the facade or watcher call that
                  \* has just returned (NoOp after any other step)
    stopsThisIdle,\* effective stops since the last GPU-lane enqueue (capped)
    processingWrites, \* job id -> number of times process_task step 1 has
                  \* written status processing into its record
    junk,         \* a message that did not come from the facade: its lane,
                  \* state, receive count and what is wrong with its body
    consecutive_errors, \* adapter -> consecutive_errors of variant A's
                  \* main_loop (variant B has no such counter: always 0)
    poll,         \* the GPU adapter's engine poll: whether it runs, the
                  \* seconds since its start_time, the last reply, its outcome
    post          \* the GPU adapter's engine submit: whether it runs, the
                  \* POST attempts made and the jobs the engine created

vars == << store, nextJob, msg, hostState, gpuVariant, pc, cur, shutdown_flag,
           emptySamples, alarmState, alarmEvent, faults, lastOp, stopsThisIdle,
           processingWrites, junk, consecutive_errors, poll, post >>

NoRecord == [status |-> "absent", result |-> "", error |-> ""]
NoMsg == [lane |-> "none", state |-> "none", count |-> 0]
NoOp == [op |-> "none", route |-> "", code |-> 0, saw |-> "", issued |-> 0]
NoJunk == [lane |-> "none", state |-> "none", count |-> 0, kind |-> "none"]
NoPoll == [state |-> "idle", elapsed |-> 0, last |-> "none", outcome |-> "none"]
NoPost == [state |-> "idle", attempt |-> 0, created |-> 0, result |-> "none"]

Init ==
    /\ store = [j \in JobIds |-> NoRecord]
    /\ nextJob = 0
    /\ msg = [j \in JobIds |-> NoMsg]
    /\ hostState = "running"
    /\ gpuVariant \in {"A", "B"}
    /\ pc = [a \in Receivers |-> IF a \in Adapters THEN "recv" ELSE "down"]
    /\ cur = [a \in Receivers |-> 0]
    /\ shutdown_flag = [a \in Receivers |-> FALSE]
    /\ emptySamples = 0
    /\ alarmState = "OK"
    /\ alarmEvent = FALSE
    /\ faults = 0
    /\ lastOp = NoOp
    /\ stopsThisIdle = 0
    /\ processingWrites = [j \in JobIds |-> 0]
    /\ junk = NoJunk
    /\ consecutive_errors = [a \in Receivers |-> 0]
    /\ poll = NoPoll
    /\ post = NoPost

\* adapter program of adapter a: the CPU lane runs paid-api-service/sqs_adapter.py
Variant(a) == IF QueueOf(a) = "gpu" THEN gpuVariant ELSE "A"

(* --------------------------- job store --------------------------------- *)
\* a create_task that returns without having written the record
create_task_lost(st, j) == st

\* a create_task whose put_item carries no ConditionExpression
create_task_put(st, j) ==
    [st EXCEPT ![j] = [status |-> "pending", result |-> "", error |-> ""]]

\* aws/dynamodb.py create_task: conditional put of a pending record
create_task(st, j) ==
    IF st[j].status = "absent"
    THEN [st EXCEPT ![j] = [status |-> "pending", result |-> "", error |-> ""]]
    ELSE st

\* create_task raises (ConditionalCheckFailedException -> ValueError) when
\* the table already holds an item with this task_id
create_task_raises(st, j) == st[j].status # "absent"

\* a call of create_task with a task_id that was generated before: the
\* record may be there in any status, or not (its first insert failed)
CreateTask(j) ==
    /\ j <= nextJob
    /\ store' = create_task(store, j)
    /\ lastOp' = [op |-> "create", job |-> j,
                  raised |-> create_task_raises(store, j)]
    /\ UNCHANGED << nextJob, msg, hostState, gpuVariant, pc, cur,
                    shutdown_flag, emptySamples, alarmState, alarmEvent,
                    faults, stopsThisIdle, processingWrites, junk >>
    /\ UNCHANGED consecutive_errors
    /\ UNCHANGED << poll, post >>

\* the update expression built by the adapters' update_task_status:
\* status is always SET; result and error_message only when truthy
UpdateItem(st, j, status, result, error) ==
    [st EXCEPT ![j] = [status |-> status,
                       result |-> IF Truthy(result) THEN result ELSE @.result,
                       error  |-> IF Truthy(error) THEN error ELSE @.error]]

\* number of update_item attempts one update_task_status call makes
Attempts(variant) == IF variant = "A" THEN 1 ELSE MAX_RETRIES

\* outcome of update_task_status when the store fails `fails` times in a row:
\* TRUE = written
UpdateSucceeds(variant, fails) == fails < Attempts(variant)

(* --------------------------- facade ------------------------------------ *)
\* a facade with one queue for every route
LaneOfAllGpu(route) == "gpu"

\* static route -> lane mapping of orchestrator_api.py
LaneOf(route) == IF route \in CpuRoutes THEN "cpu" ELSE "gpu"

\* an ensure_gpu_running that starts the host whenever it is not up
ShouldStartUnlessUp(state) == state \notin {"running", "pending"}

\* ensure_gpu_running: start is issued iff the state read is "stopped"
ShouldStart(state) == state = "stopped"

HostStates == {"stopped", "pending", "running", "stopping"}


SubmitOutcomes == {"ok", "create_error", "send_error", "describe_error",
                   "not_found", "start_error"}

\* a facade that answers 202 whatever happened
SubmitOpAlwaysAccepts(route, code, saw, issued) ==
    [op |-> "submit", route |-> route, code |-> 202, saw |-> saw,
     issued |-> issued]

\* a facade that surfaces a cold-start path that could not read the host
\* state as 500
SubmitOpSurfacesColdStart(route, code, saw, issued) ==
    [op |-> "submit", route |-> route,
     code |-> IF saw \in {"", "notfound"} THEN 500 ELSE code,
     saw |-> saw, issued |-> issued]

\* state of lastOp after a submit
SubmitOp(route, code, saw, issued) ==
    [op |-> "submit", route |-> route, code |-> code, saw |-> saw,
     issued |-> issued]

\* submit_task (GPU routes) and create_face_mask_task /
\* create_full_face_swap_task (CPU routes): generate the id, insert the
\* pending record, enqueue on the route's lane, and (submit_task only) call
\* ensure_gpu_running.  `outcome` is what the store, the queue and EC2 do.
Submit(route, outcome) ==
    LET j == nextJob + 1
        lane == LaneOf(route)
        cost == IF outcome = "ok" THEN 0 ELSE 1
        callsEnsure == route \in GpuRoutes
    IN
    /\ nextJob < MaxJobs
    /\ faults + cost <= MaxFaults
    /\ outcome \in {"describe_error", "not_found", "start_error"} => callsEnsure
    /\ outcome = "start_error" => ShouldStart(hostState)
    /\ nextJob' = j
    /\ faults' = faults + cost
    /\ IF outcome = "create_error"
       THEN /\ lastOp' = SubmitOp(route, 500, "", 0)
            /\ UNCHANGED << store, msg, hostState, stopsThisIdle >>
       ELSE IF outcome = "send_error"
       THEN /\ store' = create_task(store, j)
            /\ lastOp' = SubmitOp(route, 500, "", 0)
            /\ UNCHANGED << msg, hostState, stopsThisIdle >>
       ELSE /\ store' = create_task(store, j)
            /\ msg' = [msg EXCEPT ![j] = [lane |-> lane, state |-> "visible",
                                          count |-> 0]]
            /\ stopsThisIdle' = IF lane = "gpu" THEN 0 ELSE stopsThisIdle
            /\ IF ~callsEnsure
               THEN /\ lastOp' = SubmitOp(route, 202, "", 0)
                    /\ UNCHANGED hostState
               ELSE IF outcome = "describe_error"
               THEN /\ lastOp' = SubmitOp(route, 202, "", 0)
                    /\ UNCHANGED hostState
               ELSE IF outcome = "not_found"
               THEN /\ lastOp' = SubmitOp(route, 202, "notfound", 0)
                    /\ UNCHANGED hostState
               ELSE /\ lastOp' = SubmitOp(route, 202, hostState,
                                    IF ShouldStart(hostState) THEN 1 ELSE 0)
                    /\ hostState' = IF ShouldStart(hostState) /\ outcome = "ok"
                                    THEN "pending" ELSE hostState
    /\ UNCHANGED << gpuVariant, pc, cur, shutdown_flag, emptySamples,
                    alarmState, alarmEvent >>
    /\ UNCHANGED << processingWrites, junk >>
    /\ UNCHANGED consecutive_errors
    /\ UNCHANGED << poll, post >>

(* --------------------------- status read ------------------------------- *)
\* what one get_item call of get_task_status gives: the item, no item, or a
\* ClientError
ReadOutcomes == {"hit", "miss", "error"}

\* get_item is an eventually consistent read: right after the 202 of the
\* submit that inserted the record it may not see the record yet
WriteLag(j) == lastOp.op = "submit" /\ lastOp.code = 202 /\ nextJob = j

\* read outcome r is possible for job id j
CanRead(j, r) ==
    \/ r = "error"
    \/ r = "hit" /\ store[j].status # "absent"
    \/ r = "miss" /\ (store[j].status = "absent" \/ WriteLag(j))

\* a get_job_status that reads once
RetryNever(r1) == FALSE

\* get_job_status: `if not task:` sleep 1 s and read again
Retry(r1) == r1 = "miss"

\* the reads get_job_status makes, given the outcomes of the calls
Reads(r1, r2) == IF Retry(r1) THEN << r1, r2 >> ELSE << r1 >>

\* status code of get_job_status for the outcome of its last read
StatusCode(r) == IF r = "hit" THEN 200 ELSE IF r = "miss" THEN 404 ELSE 500

\* the JobResponse built from the item
Project(rec) ==
    [status |-> rec.status, result_url |-> rec.result, error |-> rec.error]

NoBody == [status |-> "", result_url |-> "", error |-> ""]

\* get_job_status for job id j; r1 and r2 are the outcomes of the first read
\* and of the read one second later
GetStatus(j, r1, r2) ==
    LET reads == Reads(r1, r2)
        last == reads[Len(reads)]
        cost == IF last = "error" THEN 1 ELSE 0
    IN
    /\ CanRead(j, r1)
    /\ IF r1 = "miss"
       THEN r2 = "error" \/ (r2 = "hit" /\ store[j].status # "absent")
                        \/ (r2 = "miss" /\ CanRead(j, "miss"))
       ELSE r2 = r1
    /\ faults + cost <= MaxFaults
    /\ faults' = faults + cost
    /\ lastOp' = [op |-> "status", job |-> j, code |-> StatusCode(last),
                  reads |-> reads,
                  body |-> IF last = "hit" THEN Project(store[j]) ELSE NoBody]
    /\ UNCHANGED << store, nextJob, msg, hostState, gpuVariant, pc, cur,
                    shutdown_flag, emptySamples, alarmState, alarmEvent,
                    stopsThisIdle, processingWrites, junk >>
    /\ UNCHANGED consecutive_errors
    /\ UNCHANGED << poll, post >>

(* ----------------------------- queues ---------------------------------- *)
Live(m) == m.state \in {"visible", "inflight"}

\* the lease of a received message runs out (visibility timeout 300 s / 600 s)
VisibilityTimeout(j) ==
    /\ msg[j].state = "inflight"
    /\ msg' = [msg EXCEPT ![j].state = "visible"]
    /\ lastOp' = NoOp
    /\ UNCHANGED << store, nextJob, hostState, gpuVariant, pc, cur,
                    shutdown_flag, emptySamples, alarmState, alarmEvent,
                    faults, stopsThisIdle >>
    /\ UNCHANGED << processingWrites, junk >>
    /\ UNCHANGED consecutive_errors
    /\ UNCHANGED << poll, post >>

\* an adapter process that can still call receive_message
Receiving(a) == pc[a] \notin {"down", "exited"}

\* the main queue drops a message older than its retention period
\* (sqs_stack.py retention_period = 1 day).  A message can stay visible that
\* long only while nothing is receiving from its lane.
RetentionExpire(j) ==
    /\ msg[j].state = "visible"
    /\ ~Receiving(msg[j].lane)
    /\ msg' = [msg EXCEPT ![j].state = "expired"]
    /\ lastOp' = NoOp
    /\ UNCHANGED << store, nextJob, hostState, gpuVariant, pc, cur,
                    shutdown_flag, emptySamples, alarmState, alarmEvent,
                    faults, stopsThisIdle >>
    /\ UNCHANGED << processingWrites, junk >>
    /\ UNCHANGED consecutive_errors
    /\ UNCHANGED << poll, post >>

(* ----------------------------- engine ---------------------------------- *)
\* what the local inference engine does with one submitted request
\* ("bad_reply": the reply to the submit is JSON but not an object, so that
\* `.get('job_id')` raises AttributeError)
EngineOutcomes == {"unreachable", "no_job_id", "timeout", "shutdown",
                   "bad_reply",
                   "completed_url", "completed_nourl",
                   "failed_err", "failed_noerr", "failed_nokey"}

\* final status document returned by the poll (JobStatus of the engine);
\* hasError says whether the document carries an "error" key at all
final_status(outcome) ==
    [status |-> IF outcome \in {"completed_url", "completed_nourl"}
                THEN "completed" ELSE "failed",
     result_s3_uri |-> IF outcome = "completed_url" THEN "s3://result" ELSE "",
     hasError |-> outcome \in {"failed_err", "failed_noerr"},
     error |-> IF outcome = "failed_err" THEN "engine error" ELSE ""]

\* dict.get('error', default): the default is used only when the key is absent
GetError(doc, default) == IF doc.hasError THEN doc.error ELSE default

(* ---------------------------- adapters --------------------------------- *)
Min(a, b) == IF a < b THEN a ELSE b

\* fault cost of one update_task_status call that met `fails` store errors
WriteCost(fails) == IF fails > 0 THEN 1 ELSE 0

\* except-block of process_task in variant A: write failed with str(e),
\* swallowing a failure of that write; the message is not deleted
ExceptWrite(st, j, handlerOk) ==
    IF handlerOk THEN UpdateItem(st, j, "failed", "", "exception") ELSE st

\* a queue without a redrive policy
ExhaustedNever(m) == FALSE

\* redrive policy of the queue: a message already received max_receive_count
\* times goes to the dead-letter queue at the next receive
Exhausted(m) == m.count >= MAX_RECEIVE_COUNT

\* top of the main loop and receive_message.  Variant A leaves the loop when
\* shutdown_flag is set.  A receive that finds a message already received
\* MAX_RECEIVE_COUNT times moves it to the dead-letter queue instead of
\* delivering it.
Receive(a, j) ==
    /\ pc[a] = "recv"
    /\ IF Variant(a) = "A" /\ shutdown_flag[a]
       THEN /\ pc' = [pc EXCEPT ![a] = "exited"]
            /\ UNCHANGED << msg, cur >>
       ELSE /\ msg[j].state = "visible"
            /\ msg[j].lane = QueueOf(a)
            /\ IF Exhausted(msg[j])
               THEN /\ msg' = [msg EXCEPT ![j].state = "dlq"]
                    /\ UNCHANGED << pc, cur >>
               ELSE /\ msg' = [msg EXCEPT ![j].state = "inflight",
                                          ![j].count = @ + 1]
                    /\ cur' = [cur EXCEPT ![a] = j]
                    /\ pc' = [pc EXCEPT ![a] = "mark"]
    /\ lastOp' = NoOp
    /\ UNCHANGED << store, nextJob, hostState, gpuVariant, shutdown_flag,
                    emptySamples, alarmState, alarmEvent, faults, stopsThisIdle >>
    /\ UNCHANGED << processingWrites, junk >>
    /\ consecutive_errors' =
          IF Variant(a) = "A" /\ ~shutdown_flag[a] /\ ~Exhausted(msg[j])
          THEN [consecutive_errors EXCEPT ![a] = 0]
          ELSE consecutive_errors
    /\ UNCHANGED << poll, post >>

\* a process_task that calls the engine whether or not step 1 wrote
AfterMarkGoesOn(ok) == "engine"

\* where process_task goes after step 1: on to the engine call when the
\* processing write succeeded, out of process_task (variant A through its
\* except-block, variant B by `return False`) and back to receive when not
AfterMark(ok) == IF ok THEN "engine" ELSE "recv"

\* process_task step 1: update_task_status(task_id, 'processing').
\* Variant A first checks shutdown_flag (main_loop, before process_task) and
\* on a failed write runs its except-block; variant B returns False.
MarkProcessing(a, fails, handlerOk) ==
    LET j == cur[a]
        ok == UpdateSucceeds(Variant(a), fails)
        handled == Variant(a) = "A" /\ ~ok
        cost == WriteCost(fails) + (IF handled /\ ~handlerOk THEN 1 ELSE 0)
    IN
    /\ pc[a] = "mark"
    /\ IF Variant(a) = "A" /\ shutdown_flag[a]
       THEN /\ pc' = [pc EXCEPT ![a] = "recv"]
            /\ cur' = [cur EXCEPT ![a] = 0]
            /\ fails = 0 /\ handlerOk
            /\ UNCHANGED << store, faults >>
       ELSE /\ faults + cost <= MaxFaults
            /\ (~handled) => handlerOk
            /\ faults' = faults + cost
            /\ store' = IF ok
                        THEN UpdateItem(store, j, "processing", "", "")
                        ELSE IF handled
                        THEN ExceptWrite(store, j, handlerOk)
                        ELSE store
            /\ pc' = [pc EXCEPT ![a] = AfterMark(ok)]
            /\ cur' = IF AfterMark(ok) = "engine" THEN cur
                      ELSE [cur EXCEPT ![a] = 0]
    /\ lastOp' = NoOp
    /\ UNCHANGED << nextJob, msg, hostState, gpuVariant, shutdown_flag,
                    emptySamples, alarmState, alarmEvent, stopsThisIdle >>
    /\ processingWrites' =
          IF ~(Variant(a) = "A" /\ shutdown_flag[a]) /\ ok
          THEN [processingWrites EXCEPT ![j] = @ + 1]
          ELSE processingWrites
    /\ UNCHANGED junk
    /\ UNCHANGED consecutive_errors
    /\ UNCHANGED << poll, post >>

\* a process_task that writes failed whatever the engine reported
TerminalWriteAlwaysFailed(variant, outcome) ==
    << "failed", "", "Unknown error" >>

\* the terminal write process_task makes for an engine outcome, as
\* <<status, result, error>>; <<>> when the variant raises instead of writing
TerminalWrite(variant, outcome) ==
    LET doc == final_status(outcome) IN
    IF outcome = "bad_reply"
    THEN << >>
    ELSE IF outcome \in {"unreachable", "no_job_id", "timeout", "shutdown"}
    THEN IF variant = "A" THEN << >>
         ELSE << "failed", "",
                 IF outcome = "timeout"
                 THEN "Timeout waiting for ComfyUI job completion"
                 ELSE IF outcome = "no_job_id"
                 THEN "Invalid ComfyUI response: no job_id"
                 ELSE "Failed to call ComfyUI API" >>
    ELSE IF doc.status = "completed"
    THEN IF variant = "A"
         THEN << "completed", doc.result_s3_uri, "" >>
         ELSE IF Truthy(doc.result_s3_uri)
              THEN << "completed", doc.result_s3_uri, "" >>
              ELSE << "failed", "", "ComfyUI completed but no result_s3_uri" >>
    ELSE << "failed", "",
            GetError(doc, IF variant = "A" THEN "Unknown error"
                          ELSE "Unknown ComfyUI error") >>

\* process_task steps 2-4: submit to the engine, poll it, write the terminal
\* status.  Variant A raises on submit error, missing job id, poll timeout,
\* shutdown during polling and on a failed write, and then runs its
\* except-block without deleting; variant B writes failed (ignoring the
\* result of the write) and goes on to delete, except for an exception it
\* does not expect, which its `except Exception` turns into `return False`.
EngineStep(a, outcome, fails, handlerOk) ==
    LET j == cur[a]
        w == TerminalWrite(Variant(a), outcome)
        ok == UpdateSucceeds(Variant(a), fails)
        raised == w = << >> \/ (Variant(a) = "A" /\ ~ok)
        cost == WriteCost(fails) + (IF raised /\ ~handlerOk THEN 1 ELSE 0)
    IN
    /\ pc[a] = "engine"
    /\ outcome = "shutdown" => Variant(a) = "A" /\ shutdown_flag[a]
    /\ (Variant(a) = "A" /\ shutdown_flag[a])
          => outcome \in {"unreachable", "no_job_id", "shutdown", "bad_reply"}
    /\ w = << >> => fails = 0
    /\ (~raised \/ Variant(a) = "B") => handlerOk
    /\ faults + cost <= MaxFaults
    /\ faults' = faults + cost
    /\ IF raised
       THEN /\ store' = IF Variant(a) = "A"
                        THEN ExceptWrite(store, j, handlerOk)
                        ELSE store
            /\ pc' = [pc EXCEPT ![a] = "recv"]
            /\ cur' = [cur EXCEPT ![a] = 0]
       ELSE /\ store' = IF ok THEN UpdateItem(store, j, w[1], w[2], w[3])
                        ELSE store
            /\ pc' = [pc EXCEPT ![a] = "delete"]
            /\ UNCHANGED cur
    /\ lastOp' = NoOp
    /\ UNCHANGED << nextJob, msg, hostState, gpuVariant, shutdown_flag,
                    emptySamples, alarmState, alarmEvent, stopsThisIdle >>
    /\ UNCHANGED << processingWrites, junk >>
    /\ UNCHANGED consecutive_errors
    /\ UNCHANGED << poll, post >>

\* sqs delete_message with the receipt handle of the held message.  Variant A
\* calls it inside the try block, so a failure runs the except-block; variant
\* B's delete_message logs the failure.
DeleteMessage(a, deleteOk, handlerOk) ==
    LET j == cur[a]
        raised == Variant(a) = "A" /\ ~deleteOk
        cost == (IF deleteOk THEN 0 ELSE 1)
                + (IF raised /\ ~handlerOk THEN 1 ELSE 0)
    IN
    /\ pc[a] = "delete"
    /\ (~raised) => handlerOk
    /\ faults + cost <= MaxFaults
    /\ faults' = faults + cost
    /\ msg' = IF deleteOk /\ Live(msg[j])
              THEN [msg EXCEPT ![j].state = "deleted"]
              ELSE msg
    /\ store' = IF raised THEN ExceptWrite(store, j, handlerOk) ELSE store
    /\ pc' = [pc EXCEPT ![a] = "recv"]
    /\ cur' = [cur EXCEPT ![a] = 0]
    /\ lastOp' = NoOp
    /\ UNCHANGED << nextJob, hostState, gpuVariant, shutdown_flag,
                    emptySamples, alarmState, alarmEvent, stopsThisIdle >>
    /\ UNCHANGED << processingWrites, junk >>
    /\ UNCHANGED consecutive_errors
    /\ UNCHANGED << poll, post >>

(* ----------------------- malformed messages ---------------------------- *)
\* what can be wrong with a message body: json.loads raises on it, or it
\* decodes to an object without task_id
JunkKinds == {"undecodable", "no_task_id"}

\* somebody other than the facade sends a message to a lane's queue
InjectJunk(lane, kind) ==
    /\ junk = NoJunk
    /\ junk' = [lane |-> lane, state |-> "visible", count |-> 0,
                kind |-> kind]
    /\ lastOp' = NoOp
    /\ UNCHANGED << store, nextJob, msg, hostState, gpuVariant, pc, cur,
                    shutdown_flag, emptySamples, alarmState, alarmEvent,
                    faults, stopsThisIdle, processingWrites >>
    /\ UNCHANGED consecutive_errors
    /\ UNCHANGED << poll, post >>

\* the lease of the received malformed message runs out
JunkVisibilityTimeout ==
    /\ junk.state = "inflight"
    /\ junk' = [junk EXCEPT !.state = "visible"]
    /\ lastOp' = NoOp
    /\ UNCHANGED << store, nextJob, msg, hostState, gpuVariant, pc, cur,
                    shutdown_flag, emptySamples, alarmState, alarmEvent,
                    faults, stopsThisIdle, processingWrites >>
    /\ UNCHANGED consecutive_errors
    /\ UNCHANGED << poll, post >>

\* receive_message delivers the malformed message to adapter a, or the queue
\* dead-letters it
ReceiveJunk(a) ==
    /\ pc[a] = "recv"
    /\ ~(Variant(a) = "A" /\ shutdown_flag[a])
    /\ junk.state = "visible"
    /\ junk.lane = a
    /\ IF Exhausted(junk)
       THEN /\ junk' = [junk EXCEPT !.state = "dlq"]
            /\ UNCHANGED pc
       ELSE /\ junk' = [junk EXCEPT !.state = "inflight", !.count = @ + 1]
            /\ pc' = [pc EXCEPT ![a] = "junk"]
    /\ lastOp' = NoOp
    /\ UNCHANGED << store, nextJob, msg, hostState, gpuVariant, cur,
                    shutdown_flag, emptySamples, alarmState, alarmEvent,
                    faults, stopsThisIdle, processingWrites >>
    /\ consecutive_errors' =
          IF Variant(a) = "A" /\ ~Exhausted(junk)
          THEN [consecutive_errors EXCEPT ![a] = 0]
          ELSE consecutive_errors
    /\ UNCHANGED << poll, post >>

\* process_task asks for the malformed message to be deleted: only variant B
\* does, for a decoded body with a missing field (`return True`)
DeletesMalformed(variant, kind) == variant = "B" /\ kind = "no_task_id"

\* value of consecutive_errors in variant A's main_loop after a message made
\* process_task raise: it was set to 0 when the message was received
ErrorsAfterRaise == 0 + 1

\* an adapter that ends when process_task cannot handle a message
AfterMalformedExits(variant, kind) == "exited"

\* where the adapter's loop goes after a malformed message.  Variant A:
\* json.loads raises into main_loop, which counts the error and leaves the
\* loop at MAX_CONSECUTIVE_ERRORS; a missing task_id makes both status writes
\* raise, the second one swallowed.  Variant B returns False or True.
AfterMalformed(variant, kind) ==
    IF variant = "A" /\ kind = "undecodable"
          /\ ErrorsAfterRaise >= MAX_CONSECUTIVE_ERRORS
    THEN "exited"
    ELSE "recv"

\* process_task on the malformed message adapter a holds.  No status write
\* reaches the store: there is no task_id to write to.
HandleJunk(a, deleteOk) ==
    LET deletes == DeletesMalformed(Variant(a), junk.kind)
        skipped == Variant(a) = "A" /\ shutdown_flag[a]
        cost == IF deleteOk THEN 0 ELSE 1
    IN
    /\ pc[a] = "junk"
    /\ (skipped \/ ~deletes) => deleteOk
    /\ faults + cost <= MaxFaults
    /\ faults' = faults + cost
    /\ junk' = IF ~skipped /\ deletes /\ deleteOk /\ junk.state = "inflight"
               THEN [junk EXCEPT !.state = "deleted"]
               ELSE junk
    /\ pc' = [pc EXCEPT ![a] = IF skipped THEN "recv"
                               ELSE AfterMalformed(Variant(a), junk.kind)]
    /\ lastOp' = NoOp
    /\ UNCHANGED << store, nextJob, msg, hostState, gpuVariant, cur,
                    shutdown_flag, emptySamples, alarmState, alarmEvent,
                    stopsThisIdle, processingWrites >>
    /\ consecutive_errors' =
          IF Variant(a) = "A" /\ ~skipped /\ junk.kind = "undecodable"
          THEN [consecutive_errors EXCEPT ![a] = @ + 1]
          ELSE consecutive_errors
    /\ UNCHANGED << poll, post >>

(* ------------------- receives that bring no message -------------------- *)
\* some message is waiting in lane a's queue
SomethingVisible(a) ==
    \/ \E j \in JobIds : msg[j].lane = a /\ msg[j].state = "visible"
    \/ junk.lane = a /\ junk.state = "visible"

\* state of lastOp after a receive_message call of adapter a that brought no
\* message: got is "empty" or "error"
PollOp(a, got) == [op |-> "poll", adapter |-> a, got |-> got]

\* receive_message raises ClientError.  Variant A's main_loop counts it and
\* leaves the loop at MAX_CONSECUTIVE_ERRORS; variant B's main sleeps and
\* goes on.
ReceiveError(a) ==
    /\ pc[a] = "recv"
    /\ ~(Variant(a) = "A" /\ shutdown_flag[a])
    /\ IF Variant(a) = "A"
       THEN /\ consecutive_errors' =
                  [consecutive_errors EXCEPT ![a] = @ + 1]
            /\ pc' = [pc EXCEPT ![a] =
                        IF consecutive_errors'[a] >= MAX_CONSECUTIVE_ERRORS
                        THEN "exited" ELSE "recv"]
       ELSE UNCHANGED << consecutive_errors, pc >>
    /\ lastOp' = PollOp(a, "error")
    /\ UNCHANGED << store, nextJob, msg, hostState, gpuVariant, cur,
                    shutdown_flag, emptySamples, alarmState, alarmEvent,
                    faults, stopsThisIdle, processingWrites, junk >>
    /\ UNCHANGED << poll, post >>

\* an adapter that powers its host off when its queue has nothing for it
HostAfterIdlePollStops(a, state) ==
    IF a = "gpu" /\ state = "running" THEN "stopping" ELSE state

\* what an adapter does to its host when a receive brings nothing: the
\* else-branch of main_loop only prints (the module docstring: shutdown is
\* handled by CloudWatch + Lambda), the host stays as it is
HostAfterIdlePoll(a, state) == state

\* the long poll ends without a message: `if messages:` is not taken, the
\* adapter loops
EmptyReceive(a) ==
    /\ pc[a] = "recv"
    /\ ~(Variant(a) = "A" /\ shutdown_flag[a])
    /\ ~SomethingVisible(a)
    /\ lastOp' = PollOp(a, "empty")
    /\ hostState' = HostAfterIdlePoll(a, hostState)
    /\ UNCHANGED << store, nextJob, msg, gpuVariant, pc, cur,
                    shutdown_flag, emptySamples, alarmState, alarmEvent,
                    faults, stopsThisIdle, processingWrites, junk,
                    consecutive_errors >>
    /\ UNCHANGED << poll, post >>

\* SIGINT/SIGTERM delivered to a running adapter: variant A's signal_handler
\* sets shutdown_flag; variant B installs no handler and the process ends.
Signal(a) ==
    /\ Receiving(a)
    /\ IF Variant(a) = "A"
       THEN /\ ~shutdown_flag[a]
            /\ shutdown_flag' = [shutdown_flag EXCEPT ![a] = TRUE]
            /\ UNCHANGED << pc, cur >>
       ELSE /\ pc' = [pc EXCEPT ![a] = "exited"]
            /\ cur' = [cur EXCEPT ![a] = 0]
            /\ UNCHANGED shutdown_flag
    /\ lastOp' = NoOp
    /\ UNCHANGED << store, nextJob, msg, hostState, gpuVariant, emptySamples,
                    alarmState, alarmEvent, faults, stopsThisIdle >>
    /\ UNCHANGED << processingWrites, junk >>
    /\ UNCHANGED consecutive_errors
    /\ UNCHANGED << poll, post >>

\* the adapter process is started again (module import: shutdown_flag = False)
Restart(a) ==
    /\ pc[a] = "exited"
    /\ a = "gpu" => hostState = "running"
    /\ pc' = [pc EXCEPT ![a] = "recv"]
    /\ shutdown_flag' = [shutdown_flag EXCEPT ![a] = FALSE]
    /\ lastOp' = NoOp
    /\ UNCHANGED << store, nextJob, msg, hostState, gpuVariant, cur,
                    emptySamples, alarmState, alarmEvent, faults, stopsThisIdle >>
    /\ UNCHANGED << processingWrites, junk >>
    /\ consecutive_errors' = [consecutive_errors EXCEPT ![a] = 0]
    /\ UNCHANGED << poll, post >>

(* ------------------------ worker host, watcher ------------------------- *)
\* the host finishes booting; its adapter service starts
HostBoot ==
    /\ hostState = "pending"
    /\ hostState' = "running"
    /\ pc' = [pc EXCEPT !["gpu"] = "recv"]
    /\ cur' = [cur EXCEPT !["gpu"] = 0]
    /\ shutdown_flag' = [shutdown_flag EXCEPT !["gpu"] = FALSE]
    /\ lastOp' = NoOp
    /\ UNCHANGED << store, nextJob, msg, gpuVariant, emptySamples, alarmState,
                    alarmEvent, faults, stopsThisIdle >>
    /\ UNCHANGED << processingWrites, junk >>
    /\ consecutive_errors' = [consecutive_errors EXCEPT !["gpu"] = 0]
    /\ UNCHANGED << poll, post >>

\* the host finishes stopping; its adapter process is gone, wherever it was
HostStopped ==
    /\ hostState = "stopping"
    /\ hostState' = "stopped"
    /\ pc' = [pc EXCEPT !["gpu"] = "down"]
    /\ cur' = [cur EXCEPT !["gpu"] = 0]
    /\ shutdown_flag' = [shutdown_flag EXCEPT !["gpu"] = FALSE]
    /\ lastOp' = NoOp
    /\ UNCHANGED << store, nextJob, msg, gpuVariant, emptySamples, alarmState,
                    alarmEvent, faults, stopsThisIdle >>
    /\ UNCHANGED << processingWrites, junk >>
    /\ consecutive_errors' = [consecutive_errors EXCEPT !["gpu"] = 0]
    /\ UNCHANGED << poll, post >>

\* ApproximateNumberOfMessagesVisible of the GPU queue
VisibleCount == Cardinality({j \in JobIds :
                    msg[j].lane = "gpu" /\ msg[j].state = "visible"})

\* one 5-minute datapoint of the alarm QueueEmptyFor30Min: it goes to ALARM
\* (and notifies the lambda once) when EVALUATION_PERIODS consecutive
\* datapoints are <= threshold, and back to OK on a datapoint above it
MetricSample ==
    /\ IF VisibleCount <= ALARM_THRESHOLD
       THEN /\ emptySamples' = Min(emptySamples + 1, EVALUATION_PERIODS)
            /\ IF emptySamples' = EVALUATION_PERIODS /\ alarmState = "OK"
               THEN alarmState' = "ALARM" /\ alarmEvent' = TRUE
               ELSE UNCHANGED << alarmState, alarmEvent >>
       ELSE /\ emptySamples' = 0
            /\ alarmState' = "OK"
            /\ UNCHANGED alarmEvent
    /\ lastOp' = NoOp
    /\ UNCHANGED << store, nextJob, msg, hostState, gpuVariant, pc, cur,
                    shutdown_flag, faults, stopsThisIdle >>
    /\ UNCHANGED << processingWrites, junk >>
    /\ UNCHANGED consecutive_errors
    /\ UNCHANGED << poll, post >>

\* a watcher that stops the host in every state but "stopped"
ShouldStopAnyUp(state) == state # "stopped"

\* lambda_handler step 3: stop is issued iff the state read is "running"
ShouldStop(state) == state = "running"

\* statusCode of the lambda's response for the state it read
WatcherCode(state) ==
    IF state \in {"running", "stopped", "stopping"} THEN 200 ELSE 400

WatcherOutcomes == {"ok", "describe_error", "not_found", "stop_error"}

\* lambda_handler invoked with the alarm's ALARM notification
LambdaHandler(outcome) ==
    LET cost == IF outcome = "ok" THEN 0 ELSE 1
        stops == ShouldStop(hostState) /\ outcome = "ok"
    IN
    /\ alarmEvent
    /\ alarmEvent' = FALSE
    /\ faults + cost <= MaxFaults
    /\ faults' = faults + cost
    /\ outcome = "stop_error" => ShouldStop(hostState)
    /\ IF outcome = "describe_error"
       THEN lastOp' = [op |-> "watcher", route |-> "", code |-> 500,
                       saw |-> "", issued |-> 0]
       ELSE IF outcome = "not_found"
       THEN lastOp' = [op |-> "watcher", route |-> "", code |-> 404,
                       saw |-> "notfound", issued |-> 0]
       ELSE lastOp' = [op |-> "watcher", route |-> "",
                       code |-> IF outcome = "stop_error" THEN 500
                                ELSE WatcherCode(hostState),
                       saw |-> hostState,
                       issued |-> IF ShouldStop(hostState) THEN 1 ELSE 0]
    /\ hostState' = IF stops THEN "stopping" ELSE hostState
    /\ stopsThisIdle' = IF stops THEN Min(stopsThisIdle + 1, 2)
                        ELSE stopsThisIdle
    /\ UNCHANGED << store, nextJob, msg, gpuVariant, pc, cur, shutdown_flag,
                    emptySamples, alarmState >>
    /\ UNCHANGED << processingWrites, junk >>
    /\ UNCHANGED consecutive_errors
    /\ UNCHANGED << poll, post >>

\* what lambda_handler looks at in its event: whether Records is there and
\* non-empty, the event's source, and the alarm state the event carries
\* (NewStateValue of the SNS message, detail.state.value of a CloudWatch
\* event)
Events == [records : 0..1, source : {"aws.cloudwatch", ""},
           state : {"ALARM", "OK"}]

\* lambda_handler steps 1 and 2 (the if / elif on the event): TRUE when the
\* handler goes on to describe_instances, FALSE when it returns 200 early
Proceeds(event) ==
    IF event.records > 0
    THEN event.state = "ALARM"
    ELSE IF event.source = "aws.cloudwatch"
    THEN event.state = "ALARM"
    ELSE TRUE

\* lambda_handler invoked with any event
Invoke(event, outcome) ==
    LET cost == IF outcome = "ok" THEN 0 ELSE 1
        stops == Proceeds(event) /\ ShouldStop(hostState) /\ outcome = "ok"
    IN
    /\ faults + cost <= MaxFaults
    /\ faults' = faults + cost
    /\ outcome # "ok" => Proceeds(event)
    /\ outcome = "stop_error" => ShouldStop(hostState)
    /\ IF ~Proceeds(event)
       THEN lastOp' = [op |-> "invoke", event |-> event, code |-> 200,
                       saw |-> "", issued |-> 0]
       ELSE IF outcome = "describe_error"
       THEN lastOp' = [op |-> "invoke", event |-> event, code |-> 500,
                       saw |-> "", issued |-> 0]
       ELSE IF outcome = "not_found"
       THEN lastOp' = [op |-> "invoke", event |-> event, code |-> 404,
                       saw |-> "notfound", issued |-> 0]
       ELSE lastOp' = [op |-> "invoke", event |-> event,
                       code |-> IF outcome = "stop_error" THEN 500
                                ELSE WatcherCode(hostState),
                       saw |-> hostState,
                       issued |-> IF ShouldStop(hostState) THEN 1 ELSE 0]
    /\ hostState' = IF stops THEN "stopping" ELSE hostState
    /\ stopsThisIdle' = IF stops THEN Min(stopsThisIdle + 1, 2)
                        ELSE stopsThisIdle
    /\ UNCHANGED << store, nextJob, msg, gpuVariant, pc, cur, shutdown_flag,
                    emptySamples, alarmState, alarmEvent, processingWrites,
                    junk >>
    /\ UNCHANGED consecutive_errors
    /\ UNCHANGED << poll, post >>

(* --------------------------- specification ----------------------------- *)
Next ==
    \/ \E r \in Routes, o \in SubmitOutcomes : Submit(r, o)
    \/ \E a \in Adapters, j \in JobIds : Receive(a, j)
    \/ \E a \in Adapters, f \in 0..MAX_RETRIES, h \in BOOLEAN :
          MarkProcessing(a, f, h)
    \/ \E a \in Adapters, o \in EngineOutcomes, f \in 0..MAX_RETRIES,
          h \in BOOLEAN : EngineStep(a, o, f, h)
    \/ \E a \in Adapters, d \in BOOLEAN, h \in BOOLEAN : DeleteMessage(a, d, h)
    \/ \E a \in Adapters : Signal(a)
    \/ \E a \in Adapters : Restart(a)
    \/ \E j \in JobIds : VisibilityTimeout(j)
    \/ \E j \in JobIds : RetentionExpire(j)
    \/ HostBoot
    \/ HostStopped
    \/ MetricSample
    \/ \E o \in WatcherOutcomes : LambdaHandler(o)

Spec == Init /\ [][Next]_vars

TypeOK ==
    /\ nextJob \in 0..MaxJobs
    /\ hostState \in HostStates
    /\ faults \in 0..MaxFaults
    /\ \A j \in JobIds :
          store[j].status \in {"absent", "pending", "processing",
                               "completed", "failed"}
    /\ \A a \in Adapters : pc[a] \in {"down", "recv", "mark", "engine",
                                      "delete", "exited"}

(* ---------------- the job lifecycle while the host runs ----------------- *)
\* the outcomes in which the engine accepts the request and reports a final
\* status before the poll times out
EngineAnswers == {"completed_url", "completed_nourl",
                  "failed_err", "failed_noerr", "failed_nokey"}

\* one step of adapter a's loop, whatever the store and the queue do and
\* whatever final status the engine reports
AdapterStep(a) ==
    \/ \E j \in JobIds : Receive(a, j)
    \/ \E f \in 0..MAX_RETRIES, h \in BOOLEAN : MarkProcessing(a, f, h)
    \/ \E o \in EngineAnswers, f \in 0..MAX_RETRIES, h \in BOOLEAN :
          EngineStep(a, o, f, h)
    \/ \E d \in BOOLEAN, h \in BOOLEAN : DeleteMessage(a, d, h)

\* the system while the worker host stays up and no adapter is signalled
LiveNext ==
    \/ \E r \in Routes, o \in SubmitOutcomes : Submit(r, o)
    \/ \E a \in Adapters : AdapterStep(a)
    \/ \E j \in JobIds : VisibilityTimeout(j)

\* The adapters are endless loops whose every call has a timeout, and a lease
\* always runs out: each keeps taking its next step.  The store and the queue
\* fail at most MaxFaults times, so they eventually respond.
LiveSpec ==
    /\ Init
    /\ [][LiveNext]_vars
    /\ \A a \in Adapters : WF_vars(AdapterStep(a))
    /\ \A j \in JobIds : WF_vars(VisibilityTimeout(j))

(* ------------------- the worker host and its watcher -------------------- *)
\* the facade, the alarm, the watcher and the host, with a GPU adapter whose
\* store and queue calls succeed and whose engine answers
HostNext ==
    \/ \E r \in Routes, o \in SubmitOutcomes : Submit(r, o)
    \/ \E j \in JobIds : Receive("gpu", j)
    \/ MarkProcessing("gpu", 0, TRUE)
    \/ \E o \in EngineAnswers : EngineStep("gpu", o, 0, TRUE)
    \/ DeleteMessage("gpu", TRUE, TRUE)
    \/ \E j \in JobIds : VisibilityTimeout(j)
    \/ HostBoot
    \/ HostStopped
    \/ MetricSample
    \/ \E o \in WatcherOutcomes : LambdaHandler(o)

SpecHost == Init /\ [][HostNext]_vars

(* --------------------- the status read of a job ------------------------- *)
\* the facade's submit and status read, with a GPU adapter whose store and
\* queue calls succeed
StatusNext ==
    \/ \E r \in Routes, o \in SubmitOutcomes : Submit(r, o)
    \/ \E j \in JobIds, r1 \in ReadOutcomes, r2 \in ReadOutcomes :
          GetStatus(j, r1, r2)
    \/ \E j \in JobIds : Receive("gpu", j)
    \/ MarkProcessing("gpu", 0, TRUE)
    \/ \E o \in EngineOutcomes : EngineStep("gpu", o, 0, TRUE)
    \/ DeleteMessage("gpu", TRUE, TRUE)

SpecStatus == Init /\ [][StatusNext]_vars

(* ------------------ deliveries of a lane's messages --------------------- *)
\* one lane: its queue and its adapter (either program), with every outcome
\* of the store, the queue and the engine, while the host stays up
DeliveryNext ==
    \/ \E r \in GpuRoutes : Submit(r, "ok")
    \/ \E j \in JobIds : Receive("gpu", j)
    \/ \E f \in 0..MAX_RETRIES, h \in BOOLEAN : MarkProcessing("gpu", f, h)
    \/ \E o \in EngineOutcomes, f \in 0..MAX_RETRIES, h \in BOOLEAN :
          EngineStep("gpu", o, f, h)
    \/ \E d \in BOOLEAN, h \in BOOLEAN : DeleteMessage("gpu", d, h)
    \/ \E j \in JobIds : VisibilityTimeout(j)

SpecDelivery == Init /\ [][DeliveryNext]_vars

(* ---------------- a lane that receives a malformed message ------------- *)
\* one step of adapter a's loop on a job's message, with the store and the
\* queue responding, or on the malformed one
LoopStep(a) ==
    \/ \E j \in JobIds : Receive(a, j)
    \/ MarkProcessing(a, 0, TRUE)
    \/ \E o \in EngineAnswers : EngineStep(a, o, 0, TRUE)
    \/ DeleteMessage(a, TRUE, TRUE)
    \/ ReceiveJunk(a)
    \/ \E d \in BOOLEAN : HandleJunk(a, d)

MalformedNext ==
    \/ \E r \in GpuRoutes : Submit(r, "ok")
    \/ \E k \in JunkKinds : InjectJunk("gpu", k)
    \/ LoopStep("gpu")
    \/ \E j \in JobIds : VisibilityTimeout(j)
    \/ JunkVisibilityTimeout

\* the adapter keeps taking the next step of its loop
SpecMalformed ==
    /\ Init
    /\ [][MalformedNext]_vars
    /\ WF_vars(LoopStep("gpu"))

(* ------------------- repeated inserts of a job record ------------------- *)
\* create_task called again for ids the facade has generated, while a GPU
\* adapter whose store and queue calls succeed works on the jobs
StoreNext ==
    \/ \E r \in GpuRoutes, o \in {"ok", "create_error", "send_error"} :
          Submit(r, o)
    \/ \E j \in JobIds : CreateTask(j)
    \/ \E j \in JobIds : VisibilityTimeout(j)
    \/ \E j \in JobIds : Receive("gpu", j)
    \/ MarkProcessing("gpu", 0, TRUE)
    \/ \E o \in EngineOutcomes : EngineStep("gpu", o, 0, TRUE)
    \/ DeleteMessage("gpu", TRUE, TRUE)

SpecStore == Init /\ [][StoreNext]_vars

(* ------------------- the watcher invoked with any event ----------------- *)
\* the lambda invoked with events of every shape, the host going through
\* its states, and submits that wake it
InvokeNext ==
    \/ \E e \in Events, o \in WatcherOutcomes : Invoke(e, o)
    \/ \E r \in GpuRoutes : Submit(r, "ok")
    \/ HostBoot
    \/ HostStopped

SpecInvoke == Init /\ [][InvokeNext]_vars

(* --------------- a lane whose processing write can fail ----------------- *)
\* one step of the GPU adapter's loop: the store may reject the write of
\* step 1 (and the except-block's write); the later calls to the store and
\* the queue succeed, whatever the engine does
RetryStep ==
    \/ \E j \in JobIds : Receive("gpu", j)
    \/ \E f \in 0..MAX_RETRIES, h \in BOOLEAN : MarkProcessing("gpu", f, h)
    \/ \E o \in EngineOutcomes : EngineStep("gpu", o, 0, TRUE)
    \/ DeleteMessage("gpu", TRUE, TRUE)

RetryNext ==
    \/ \E r \in GpuRoutes : Submit(r, "ok")
    \/ RetryStep
    \/ \E j \in JobIds : VisibilityTimeout(j)

\* the adapter keeps taking the next step of its loop and a lease always
\* runs out
SpecRetry ==
    /\ Init
    /\ [][RetryNext]_vars
    /\ WF_vars(RetryStep)
    /\ \A j \in JobIds : WF_vars(VisibilityTimeout(j))

(* ---------------- the main loop and its error counter ------------------- *)
\* the GPU adapter's loop with receives that fail, receives that bring
\* nothing, job messages and a malformed message; the store, the engine and
\* delete_message answer
LoopNext ==
    \/ \E r \in GpuRoutes : Submit(r, "ok")
    \/ \E k \in JunkKinds : InjectJunk("gpu", k)
    \/ ReceiveError("gpu")
    \/ EmptyReceive("gpu")
    \/ LoopStep("gpu")
    \/ \E j \in JobIds : VisibilityTimeout(j)
    \/ JunkVisibilityTimeout

SpecLoop == Init /\ [][LoopNext]_vars

(* ------------------------------ claims --------------------------------- *)
Terminal(status) == status \in {"completed", "failed"}

StatusSteps == { << "absent", "pending" >>, << "pending", "processing" >>,
                 << "processing", "completed" >>, << "processing", "failed" >> }

\* C1: the status values of a job record follow
\* pending -> processing -> (completed | failed): every change of a record's
\* status is one of these steps, so no terminal record goes back to
\* processing and no pending record goes straight to a terminal status.
C1_StatusSequence ==
    [][\A j \in JobIds :
          store'[j].status # store[j].status
             => << store[j].status, store'[j].status >> \in StatusSteps]_vars

\* C2: a message leaves the main queue only by an adapter's delete or by the
\* move to the dead-letter queue.
C2_DeletedOrDeadLettered ==
    [][\A j \in JobIds :
          (Live(msg[j]) /\ ~Live(msg'[j]))
             => msg'[j].state \in {"deleted", "dlq"}]_vars

\* C3: a job whose message is in the dead-letter queue has status failed.
C3_DeadLetteredIsFailed ==
    \A j \in JobIds : msg[j].state = "dlq" => store[j].status = "failed"

\* C4: every completed job record has a non-empty result URL.
C4_CompletedHasResult ==
    \A j \in JobIds : store[j].status = "completed" => Truthy(store[j].result)

\* C5: every failed job record has a non-empty error_message.
C5_FailedHasError ==
    \A j \in JobIds : store[j].status = "failed" => Truthy(store[j].error)

\* C6: a record carries an error_message only while failed and a result URL
\* only while completed (the "only if" half of the claim; the "if" half is
\* C4 and C5): in particular no completed record still carries an error.
C6_SetOnlyInItsStatus ==
    \A j \in JobIds :
        /\ Truthy(store[j].error) => store[j].status = "failed"
        /\ Truthy(store[j].result) => store[j].status = "completed"

\* a job whose submit returned 202: its message was enqueued
Admitted(j) == msg[j].state # "none"

\* C7: every admitted job eventually reaches completed or failed, while the
\* host is up, the adapters and the engine keep taking steps and the store
\* and the queue eventually respond.
C7_AdmittedEventuallyTerminal ==
    \A j \in JobIds : Admitted(j) ~> Terminal(store[j].status)

C9_AdmissionWakesHost ==
    (lastOp.op = "submit" /\ lastOp.code = 202)
       => \/ lastOp.issued >= 1
          \/ hostState \in {"pending", "running"}
          \/ lastOp.route \in GpuRoutes /\ lastOp.saw \in {"", "notfound"}

\* C10: a GPU-lane admission that observes the host stopped or still
\* stopping issues exactly one start.
C10_AdmissionAfterStopStarts ==
    (/\ lastOp.op = "submit"
     /\ lastOp.code = 202
     /\ lastOp.route \in GpuRoutes
     /\ lastOp.saw \in {"stopped", "stopping"})
       => lastOp.issued = 1

\* a GPU-lane message is leased by the adapter: received, not deleted, its job
\* in processing
Leased(j) ==
    /\ msg[j].lane = "gpu"
    /\ msg[j].state = "inflight"
    /\ cur["gpu"] = j
    /\ store[j].status = "processing"

\* C11: the watcher never issues a stop while a GPU-lane message is leased by
\* the adapter.
C11_NoStopWhileLeased ==
    (lastOp.op = "watcher" /\ lastOp.issued = 1)
       => ~ \E j \in JobIds : Leased(j)

\* the record create_task inserts
PendingRecord == [status |-> "pending", result |-> "", error |-> ""]

\* C12: a submit answers 202 only if the pending record was inserted and the
\* message was enqueued; when the insert succeeded and the enqueue failed it
\* answers 500, the pending record stays, no message exists, the cold-start
\* path is not entered and the queues and the host are left as they were.
C12_AcceptedOnlyWhenAdmitted ==
    /\ [](lastOp.op = "submit" =>
            /\ lastOp.code = 202 =>
                  /\ store[nextJob] = PendingRecord
                  /\ msg[nextJob].state = "visible"
            /\ (lastOp.code = 500 /\ store[nextJob].status # "absent") =>
                  /\ store[nextJob] = PendingRecord
                  /\ msg[nextJob] = NoMsg
                  /\ lastOp.saw = ""
                  /\ lastOp.issued = 0)
    /\ [][(lastOp'.op = "submit" /\ lastOp'.code = 500)
             => (msg' = msg /\ hostState' = hostState)]_vars

\* a submit on a GPU route has just failed at the enqueue while the host is
\* stopped
C12_Witness ==
    /\ lastOp.op = "submit"
    /\ lastOp.route \in GpuRoutes
    /\ lastOp.code = 500
    /\ store[nextJob] = PendingRecord
    /\ msg[nextJob] = NoMsg
    /\ hostState = "stopped"

\* C13: when the insert of the pending record fails, the submit answers 500,
\* no message is sent to either lane, no start is issued, and the store, the
\* queues and the host are left as they were.
C13_StoreFailureAdmitsNothing ==
    /\ [](lastOp.op = "submit" /\ store[nextJob].status = "absent" =>
            /\ lastOp.code = 500
            /\ msg[nextJob] = NoMsg
            /\ lastOp.saw = ""
            /\ lastOp.issued = 0)
    /\ [][(lastOp'.op = "submit" /\ store'[nextJob'].status = "absent")
             => (store' = store /\ msg' = msg /\ hostState' = hostState)]_vars

\* a submit has just failed at the insert while the host is stopped
C13_Witness ==
    /\ lastOp.op = "submit"
    /\ lastOp.code = 500
    /\ store[nextJob].status = "absent"
    /\ msg[nextJob] = NoMsg
    /\ hostState = "stopped"

\* the cold-start path of the submit that has just returned failed: it could
\* not read the host state, or the start it issued did not take effect
ColdStartFailed ==
    /\ lastOp.op = "submit"
    /\ lastOp.route \in GpuRoutes
    /\ msg[nextJob].state # "none"
    /\ \/ lastOp.saw \in {"", "notfound"}
       \/ lastOp.issued = 1 /\ hostState = "stopped"

\* C14: when the insert and the enqueue succeeded and the cold-start path
\* failed, the submit still answers 202, and the record is the pending record
\* and the message is the enqueued one.
C14_ColdStartFailureSwallowed ==
    ColdStartFailed =>
        /\ lastOp.code = 202
        /\ store[nextJob] = PendingRecord
        /\ msg[nextJob] = [lane |-> "gpu", state |-> "visible", count |-> 0]

\* the start issued by a submit on the stopped host has just failed
C14_Witness ==
    /\ ColdStartFailed
    /\ lastOp.saw = "stopped"
    /\ lastOp.issued = 1
    /\ hostState = "stopped"
    /\ lastOp.code = 202

\* C15: get_job_status reads once and, only if that read misses, once more;
\* it answers 404 exactly when both reads missed, and 200 with the record's
\* projection whenever a read found the record, so a read that misses right
\* after the 202 and finds the record on the retry answers pending, not 404.
C15_StatusReadRetriesOnce ==
    lastOp.op = "status" =>
        /\ Len(lastOp.reads) \in {1, 2}
        /\ Len(lastOp.reads) = 2 <=> lastOp.reads[1] = "miss"
        /\ lastOp.code = 404 <=> lastOp.reads = << "miss", "miss" >>
        /\ lastOp.code = 200 <=> lastOp.reads[Len(lastOp.reads)] = "hit"
        /\ lastOp.code = 200 => lastOp.body = Project(store[lastOp.job])
        /\ lastOp.code \in {200, 404, 500}

\* a status read has just missed the freshly inserted record and found it,
\* still pending, on its retry
C15_Witness ==
    /\ lastOp.op = "status"
    /\ lastOp.reads = << "miss", "hit" >>
    /\ lastOp.code = 200
    /\ lastOp.body.status = "pending"
    /\ msg[lastOp.job].state = "visible"

WaitsBehindJunk(a, j) ==
    /\ msg[j].state = "visible"
    /\ msg[j].lane = a
    /\ pc[a] = "junk"

\* C17: an adapter that has received a malformed message goes back to the
\* receive step when it has handled it, and a well-formed message that waited
\* meanwhile is then delivered to it for processing (or dead-lettered, if it
\* had already used up its receives).
C17_MalformedDoesNotBlock ==
    /\ [][\A a \in Adapters :
            (pc[a] = "junk" /\ pc'[a] # "junk") => pc'[a] = "recv"]_vars
    /\ \A a \in Adapters : (pc[a] = "junk") ~> (pc[a] = "recv")
    /\ \A a \in Adapters, j \in JobIds :
          WaitsBehindJunk(a, j) ~> \/ cur[a] = j /\ pc[a] = "mark"
                                   \/ msg[j].state = "dlq"

\* the well-formed message that waited behind the malformed one has been
\* delivered, and the malformed one is still in the queue
C17_Witness ==
    \E j \in JobIds :
        /\ cur["gpu"] = j
        /\ pc["gpu"] = "mark"
        /\ junk.lane = "gpu"
        /\ junk.state = "inflight"
        /\ junk.count >= 1

\* no adapter is in the middle of processing job j
AtRest(j) == \A a \in Adapters : cur[a] # j

\* C18: whenever no adapter is in the middle of processing it, a job whose
\* message is still outstanding in its main queue (visible or leased, neither
\* deleted nor dead-lettered) has status pending or processing: no adapter
\* leaves a job completed or failed and its message to be redelivered.
C18_OutstandingIsNotTerminal ==
    \A j \in JobIds :
        (AtRest(j) /\ Live(msg[j]))
            => store[j].status \in {"pending", "processing"}

\* submit_task: a job whose message was enqueued has its record inserted
InsertBeforeEnqueue ==
    \A j \in JobIds : msg[j].state # "none" => store[j].status # "absent"

\* process_task: the adapter that is at the engine call wrote processing
ProcessingBeforeEngine ==
    \A a \in Adapters :
        pc[a] = "engine" => store[cur[a]].status = "processing"

\* a step that deletes job j's message finds its record completed or failed
TerminalBeforeDelete(j) ==
    (msg[j].state # "deleted" /\ msg'[j].state = "deleted")
        => Terminal(store[j].status)

\* C19: for every job the pending insert precedes the enqueue, a successful
\* processing write precedes the engine call, and a successful terminal write
\* precedes the deletion of the job's message: no message is deleted while
\* its record is pending or processing, a failed terminal write included.
C19_WritesPrecedeQueueSteps ==
    /\ [](InsertBeforeEnqueue /\ ProcessingBeforeEngine)
    /\ [][\A j \in JobIds : TerminalBeforeDelete(j)]_vars

\* the jobs that have a message, in any queue or gone from it
Enqueued == {j \in JobIds : msg[j].state # "none"}

\* C20: a submit that answers 202 enqueued exactly one message, on exactly
\* one lane: the face-mask and full-face-swap routes on the CPU lane, every
\* other route (camera-angle, qwen-image-edit) on the GPU lane; no other
\* job's message is touched.
C20_OneMessageOnRouteLane ==
    /\ []((lastOp.op = "submit" /\ lastOp.code = 202)
            => /\ msg[nextJob].state = "visible"
               /\ msg[nextJob].count = 0
               /\ msg[nextJob].lane \in Lanes
               /\ msg[nextJob].lane = "cpu"
                     <=> lastOp.route \in {"/api/v1/face-mask/tasks",
                                           "/api/v1/full-face-swap/tasks"}
               /\ msg[nextJob].lane = "gpu"
                     <=> lastOp.route \in {"/api/v1/camera-angle/jobs",
                                           "/api/v1/qwen-image-edit/jobs"})
    /\ [][(lastOp'.op = "submit" /\ lastOp'.code = 202)
            => /\ Enqueued' = Enqueued \cup {nextJob'}
               /\ nextJob' \notin Enqueued
               /\ \A j \in JobIds \ {nextJob'} : msg'[j] = msg[j]]_vars

C20_Witness ==
    /\ lastOp.op = "submit"
    /\ lastOp.code = 202
    /\ lastOp.route = "/api/v1/face-mask/tasks"
    /\ msg[nextJob] = [lane |-> "cpu", state |-> "visible", count |-> 0]
    /\ Cardinality(Enqueued) = 1

\* C21: admission is put-if-absent: create_task on a job id that already has
\* a record raises and leaves the store as it was, whatever the status of
\* the record; on an id without a record it inserts a pending record.
C21_CreateIsPutIfAbsent ==
    [][lastOp'.op = "create"
          => IF store[lastOp'.job].status # "absent"
             THEN lastOp'.raised /\ store' = store
             ELSE /\ ~lastOp'.raised
                  /\ store'[lastOp'.job] = PendingRecord
                  /\ \A k \in JobIds \ {lastOp'.job} :
                        store'[k] = store[k]]_vars

C21_Witness ==
    /\ lastOp.op = "create"
    /\ lastOp.raised
    /\ store[lastOp.job].status = "completed"
    /\ store[lastOp.job].result # ""

\* a submit whose cold-start path has just run: submit_task enqueued the
\* message and called ensure_gpu_running
EnsureRan ==
    /\ lastOp.op = "submit"
    /\ lastOp.route \in GpuRoutes
    /\ msg[nextJob].state # "none"

\* C22: the cold-start path issues a start if and only if the host state it
\* read is stopped; for pending, running, stopping, a host that is not found
\* or a read that failed it issues none and the host stays as it was; it
\* never raises, so the submit answers 202.
C22_StartIffStopped ==
    EnsureRan
        => /\ lastOp.code = 202
           /\ lastOp.saw \in HostStates \cup {"", "notfound"}
           /\ lastOp.issued = 1 <=> lastOp.saw = "stopped"
           /\ lastOp.issued = 1 => hostState \in {"pending", "stopped"}
           /\ (lastOp.issued = 0 /\ lastOp.saw \in HostStates)
                 => hostState = lastOp.saw

C22_Witness ==
    /\ EnsureRan
    /\ lastOp.saw = "stopping"
    /\ lastOp.issued = 0
    /\ hostState = "stopping"
    /\ lastOp.code = 202

\* the event reports the alarm's new state as ALARM, in the SNS shape or in
\* the CloudWatch event shape
ReportsAlarm(event) ==
    /\ event.state = "ALARM"
    /\ event.records > 0 \/ event.source = "aws.cloudwatch"

\* C23: the idle-watcher handler issues a stop only when its event reports
\* the alarm's new state as ALARM and the host state it has just read is
\* running; for every other event (one of neither shape or with an empty
\* Records list included) and host state it issues no stop and the host
\* stays as it was.
C23_StopOnlyOnAlarmAndRunning ==
    lastOp.op = "invoke"
        => /\ lastOp.issued = 1
                 => ReportsAlarm(lastOp.event) /\ lastOp.saw = "running"
           /\ (lastOp.issued = 0 /\ lastOp.saw \in HostStates)
                 => hostState = lastOp.saw

\* adapter a finishes handling the malformed message it holds, and the
\* queue answered its calls
HandledJunk(a) == pc[a] = "junk" /\ pc'[a] # "junk" /\ faults' = faults

\* C24: when a received message is malformed (body not valid JSON, or a
\* required field missing), the adapter deletes the message, writes nothing
\* to any job record, makes no engine call, and loops to the next receive.
C24_MalformedIsDeleted ==
    [][\A a \in Adapters :
          HandledJunk(a)
             => /\ junk'.state = "deleted"
                /\ store' = store
                /\ pc'[a] = "recv"]_vars

\* adapter a's engine submit (the HTTP POST) fails while the store answers
SubmitFails(a) ==
    /\ \E h \in BOOLEAN : EngineStep(a, "unreachable", 0, h)
    /\ faults' = faults

\* C25: when the engine submit fails, the adapter writes failed with the
\* error into the job record and goes on to delete the message, so the job
\* is not retried by redelivery.
C25_SubmitFailureFailsAndDeletes ==
    [][\A a \in Adapters :
          SubmitFails(a)
             => /\ store'[cur[a]].status = "failed"
                /\ Truthy(store'[cur[a]].error)
                /\ pc'[a] = "delete"
                /\ cur'[a] = cur[a]]_vars

\* adapter a's poll of the engine runs into its timeout while the store
\* answers
PollTimesOut(a) ==
    /\ \E h \in BOOLEAN : EngineStep(a, "timeout", 0, h)
    /\ faults' = faults

\* C26: when the engine poll times out, the adapter writes failed with a
\* timeout message into the job record and goes on to delete the message.
C26_PollTimeoutFailsAndDeletes ==
    [][\A a \in Adapters :
          PollTimesOut(a)
             => /\ store'[cur[a]].status = "failed"
                /\ Truthy(store'[cur[a]].error)
                /\ pc'[a] = "delete"
                /\ cur'[a] = cur[a]]_vars

\* adapter a's poll returns the engine's final status document for outcome o
\* and the store takes the terminal write
EngineReports(a, o) == EngineStep(a, o, 0, TRUE)

\* adapter a's delete_message call for the message it holds succeeds
Deletes(a) == DeleteMessage(a, TRUE, TRUE)

\* C27: when the engine reports a terminal outcome the adapter finalizes
\* accordingly and deletes the message: completed with an artifact URL gives
\* status completed with that URL, failed gives status failed with the
\* engine's error, and in both cases the adapter goes on to delete; the
\* delete comes after the terminal write, removes a message that was still
\* in the queue, and a deleted message is never delivered or deleted again.
C27_TerminalOutcomeFinalizes ==
    [][\A a \in Adapters :
          /\ EngineReports(a, "completed_url")
                => /\ store'[cur[a]].status = "completed"
                   /\ store'[cur[a]].result = "s3://result"
                   /\ pc'[a] = "delete" /\ cur'[a] = cur[a]
                   /\ msg' = msg
          /\ EngineReports(a, "failed_err")
                => /\ store'[cur[a]].status = "failed"
                   /\ store'[cur[a]].error = "engine error"
                   /\ pc'[a] = "delete" /\ cur'[a] = cur[a]
                   /\ msg' = msg
          /\ Deletes(a)
                => /\ Terminal(store[cur[a]].status)
                   /\ Live(msg[cur[a]])
                   /\ msg'[cur[a]].state = "deleted"
                   /\ store' = store
                   /\ pc'[a] = "recv"
          /\ \A j \in JobIds :
                msg[j].state = "deleted" => msg'[j] = msg[j]]_vars

C27_Witness ==
    \E j \in JobIds :
        /\ store[j].status = "completed"
        /\ store[j].result = "s3://result"
        /\ msg[j].state = "deleted"
        /\ msg[j].count >= 1
        /\ pc["gpu"] = "recv"

\* adapter a leaves step 1 of process_task without the processing write
\* having been made
MarkFails(a) ==
    pc[a] = "mark" /\ pc'[a] # "mark" /\ processingWrites' = processingWrites

\* job j's message is leased but adapter a is not working on it (any more)
LeftInFlight(a, j) ==
    msg[j].lane = a /\ msg[j].state = "inflight" /\ cur[a] # j

\* C28: when the write that marks the job processing fails, the adapter
\* makes no engine call and does not delete the message: it is back at
\* receive and the message is still leased.  The lease then runs out and the
\* message is delivered again, so that step 1 is retried, until the queue
\* dead-letters it.
C28_FailedMarkIsRetried ==
    /\ [][\A a \in Adapters :
            MarkFails(a)
               => /\ pc'[a] = "recv"
                  /\ cur'[a] = 0
                  /\ msg' = msg
                  /\ msg[cur[a]].state \in {"inflight", "visible"}]_vars
    /\ \A a \in Adapters, j \in JobIds :
          LeftInFlight(a, j)
             ~> \/ cur[a] = j /\ pc[a] = "mark"
                \/ msg[j].state = "dlq"

C28_Witness ==
    \E j \in JobIds :
        /\ cur["gpu"] = j
        /\ pc["gpu"] = "mark"
        /\ msg[j].count = 2
        /\ processingWrites[j] = 0
        /\ faults = 1

\* a step of adapter a between marking processing and finalizing raises an
\* exception the program does not expect, while the store answers
RaisesUnexpectedly(a) ==
    /\ \E h \in BOOLEAN : EngineStep(a, "bad_reply", 0, h)
    /\ faults' = faults

\* C29: when a step between marking processing and finalizing raises
\* unexpectedly, the adapter writes failed for the job and does not delete
\* the message: it is back at receive with the message still leased, to be
\* redelivered.
C29_UnexpectedRaiseWritesFailed ==
    [][\A a \in Adapters :
          RaisesUnexpectedly(a)
             => /\ store'[cur[a]].status = "failed"
                /\ msg' = msg
                /\ pc'[a] = "recv"]_vars

\* C30: a rolling counter of consecutive exceptions shuts the adapter down
\* after MAX_CONSECUTIVE_ERRORS in a row: a failed receive leaves the adapter
\* out of its main loop exactly when it is the tenth exception in a row, and
\* any successful iteration, one whose receive brought nothing included,
\* resets the counter.
C30_TenInARowShutsDown ==
    (lastOp.op = "poll" /\ Variant(lastOp.adapter) = "A")
        => /\ lastOp.got = "empty"
                 => consecutive_errors[lastOp.adapter] = 0
           /\ lastOp.got = "error"
                 => /\ consecutive_errors[lastOp.adapter] >= 1
                    /\ pc[lastOp.adapter] = "exited"
                          <=> consecutive_errors[lastOp.adapter]
                                 >= MAX_CONSECUTIVE_ERRORS

(* ------------------- an adapter that is told to stop -------------------- *)
\* the GPU lane with an adapter that receives SIGINT/SIGTERM at any point of
\* its loop and is started again; the store, the queue and delete_message
\* answer, whatever the engine does
SignalNext ==
    \/ \E r \in GpuRoutes : Submit(r, "ok")
    \/ \E j \in JobIds : Receive("gpu", j)
    \/ MarkProcessing("gpu", 0, TRUE)
    \/ \E o \in EngineOutcomes : EngineStep("gpu", o, 0, TRUE)
    \/ DeleteMessage("gpu", TRUE, TRUE)
    \/ Signal("gpu")
    \/ Restart("gpu")
    \/ \E j \in JobIds : VisibilityTimeout(j)

SpecSignal == Init /\ [][SignalNext]_vars

\* adapter a runs the program with a signal handler and its flag is set
Flagged(a) == Variant(a) = "A" /\ shutdown_flag[a]

\* C31: once SIGINT/SIGTERM has set shutdown_flag, the adapter starts
\* processing no further message (no step 1, no engine call that goes on to
\* the terminal write), leaves its loop at the next receive, and does not
\* delete the message that was in flight when the flag was set.
C31_ShutdownKeepsMessage ==
    [][\A a \in Adapters :
          Flagged(a) =>
             /\ pc'[a] \notin {"mark", "engine"} \/ pc'[a] = pc[a]
             /\ pc[a] = "recv" /\ pc'[a] # pc[a] => pc'[a] = "exited"
             /\ \A j \in JobIds :
                   msg[j].state = "inflight" /\ cur[a] = j
                      => msg'[j].state # "deleted"]_vars

\* the record of job j shows that a terminal status has been written into it:
\* it is completed or failed, or it still carries the error or the result
\* that only a terminal write sets (update_item never clears them)
HadTerminalWrite(j) ==
    \/ Terminal(store[j].status)
    \/ Truthy(store[j].error)
    \/ Truthy(store[j].result)

\* C32: for every job a terminal status (completed or failed) is written at
\* most once: a record into which a terminal status has been written is not
\* changed by another write of a terminal status, in this delivery or a
\* later one.
C32_TerminalWrittenOnce ==
    [][\A j \in JobIds :
          HadTerminalWrite(j) /\ store'[j] # store[j]
             => ~Terminal(store'[j].status)]_vars

(* ---------------- two receivers on the same lane ------------------------ *)
\* visibility timeout an adapter asks for when it receives from a lane
VisibilityOf(lane) == IF lane = "gpu" THEN VISIBILITY_GPU ELSE VISIBILITY_CPU

\* longest time one process_task call can hold a message: the submit and
\* then the poll (the writes to the store come on top)
AttemptMax == SUBMIT_TIMEOUT + POLL_TIMEOUT

\* adapter a is between the receive and the end of process_task for job j
Holds(a, j) == cur[a] = j /\ pc[a] \in {"mark", "engine", "delete"}

\* the lease of job j's message runs out.  While an adapter still holds the
\* message this happens during its engine call and poll, and needs an
\* attempt that can last longer than the lease: no adapter extends a lease
\* (none calls change_message_visibility).
LeaseRunsOut(j) ==
    /\ (\E a \in Receivers : Holds(a, j))
          => /\ \E a \in Receivers : cur[a] = j /\ pc[a] = "engine"
             /\ AttemptMax > VisibilityOf(msg[j].lane)
    /\ VisibilityTimeout(j)

\* a second instance of the GPU lane's adapter program is started
StartSecond ==
    /\ pc["gpu2"] = "down"
    /\ pc' = [pc EXCEPT !["gpu2"] = "recv"]
    /\ lastOp' = NoOp
    /\ UNCHANGED << store, nextJob, msg, hostState, gpuVariant, cur,
                    shutdown_flag, emptySamples, alarmState, alarmEvent,
                    faults, stopsThisIdle, processingWrites, junk,
                    consecutive_errors >>
    /\ UNCHANGED << poll, post >>

\* the GPU lane with two adapters receiving from its queue; the store, the
\* engine and delete_message answer
TwoNext ==
    \/ \E r \in GpuRoutes : Submit(r, "ok")
    \/ StartSecond
    \/ \E a \in {"gpu", "gpu2"}, j \in JobIds : Receive(a, j)
    \/ \E a \in {"gpu", "gpu2"} : MarkProcessing(a, 0, TRUE)
    \/ \E a \in {"gpu", "gpu2"}, o \in EngineOutcomes :
          EngineStep(a, o, 0, TRUE)
    \/ \E a \in {"gpu", "gpu2"} : DeleteMessage(a, TRUE, TRUE)
    \/ \E j \in JobIds : LeaseRunsOut(j)

SpecTwo == Init /\ [][TwoNext]_vars

\* C33: with two adapters receiving from the same lane, a message is processed
\* by at most one adapter at a time: no adapter receives a message and starts
\* on it while another adapter is still between receive and delete for it.
C33_OneAdapterAtATime ==
    \A a \in Receivers, b \in Receivers, j \in JobIds :
        Holds(a, j) /\ Holds(b, j) => a = b

\* C34: when a status write meets one transient store error (the first
\* update_item call raises, the next one would succeed), the adapter retries
\* it: the processing write of step 1 is made and process_task goes on to the
\* engine, and the terminal write for an engine answer is made and
\* process_task goes on to the delete.
C34_StoreWriteRetried ==
    [][\A a \in Adapters :
          /\ (\E h \in BOOLEAN : MarkProcessing(a, 1, h))
                => /\ store'[cur[a]].status = "processing"
                   /\ pc'[a] = "engine"
          /\ \A o \in EngineAnswers :
                (\E h \in BOOLEAN : EngineStep(a, o, 1, h))
                   => /\ store'[cur[a]].status = TerminalWrite(Variant(a), o)[1]
                      /\ pc'[a] = "delete"]_vars

(* ----------------- who starts and who stops the host -------------------- *)
\* the facade, the alarm, the watcher, the host and the adapters, idle
\* polls included, with a store, a queue and an engine that answer the
\* adapter of the GPU lane
WhoNext ==
    \/ \E r \in Routes, o \in SubmitOutcomes : Submit(r, o)
    \/ \E j \in JobIds : Receive("gpu", j)
    \/ MarkProcessing("gpu", 0, TRUE)
    \/ \E o \in EngineAnswers : EngineStep("gpu", o, 0, TRUE)
    \/ DeleteMessage("gpu", TRUE, TRUE)
    \/ \E a \in Adapters : EmptyReceive(a)
    \/ \E j \in JobIds : VisibilityTimeout(j)
    \/ HostBoot
    \/ HostStopped
    \/ MetricSample
    \/ \E o \in WatcherOutcomes : LambdaHandler(o)

SpecWho == Init /\ [][WhoNext]_vars

\* the step is one of an adapter's loop: its position or the message it
\* holds changes, or it has polled, and the host is not at that moment
\* finishing its boot or its stop (which start and end the GPU adapter)
IsAdapterStep ==
    /\ \/ lastOp'.op = "poll"
       \/ \E a \in Adapters : pc'[a] # pc[a] \/ cur'[a] # cur[a]
    /\ ~(hostState = "pending" /\ hostState' = "running")
    /\ ~(hostState = "stopping" /\ hostState' = "stopped")

\* C35: the worker host is stopped only by the idle-watcher and started only
\* by the facade: a step that puts the host into stopping is a watcher call
\* that issued a stop, a step that puts it into pending is a submit that
\* issued a start, no step of an adapter changes the state of the host, and
\* no submit of the facade puts the host into stopping.
C35_OnlyWatcherStopsOnlyFacadeStarts ==
    [][/\ (hostState' = "stopping" /\ hostState # "stopping")
             => lastOp'.op = "watcher" /\ lastOp'.issued = 1
       /\ (hostState' = "pending" /\ hostState # "pending")
             => lastOp'.op = "submit" /\ lastOp'.issued = 1
       /\ IsAdapterStep => hostState' = hostState
       /\ lastOp'.op = "submit"
             => hostState' = hostState \/ hostState' = "pending"]_vars

\* the watcher has stopped the host and a later submit has started it again
C35_Witness ==
    /\ hostState = "pending"
    /\ lastOp.op = "submit"
    /\ lastOp.issued = 1
    /\ stopsThisIdle = 0

(* --------------------------- the engine poll ---------------------------- *)
\* what one status request can bring: a status the engine reports ("unknown"
\* is any status that is none of the four), or a request error
Replies == {"completed", "failed", "pending", "processing", "unknown",
            "error"}

\* how long one status request takes: it answers at once or takes all of its
\* timeout (seconds)
GetDurations == {0, GET_TIMEOUT}

\* the latest reading of time.time() - start_time a poll iteration can end at
LastReading == POLL_TIMEOUT + GET_TIMEOUT + ERROR_SLEEP

\* readings of the clock beyond this one are not told apart
MaxClock == LastReading + 1

\* a poll loop without its check of the elapsed time
TimedOutNever(variant, elapsed) == FALSE

\* the check of the elapsed time at the top of a poll iteration: variant A
\* `while time.time() - start_time < timeout`, variant B `if elapsed > timeout`
TimedOut(variant, elapsed) ==
    IF variant = "A" THEN ~(elapsed < POLL_TIMEOUT) ELSE elapsed > POLL_TIMEOUT

\* the sleep that ends an iteration which did not return
SleepAfter(variant, reply) ==
    IF variant = "A"
    THEN IF reply = "error" THEN ERROR_SLEEP ELSE POLL_SLEEP
    ELSE COMFY_POLL_INTERVAL

\* process_task calls the poll: start_time = time.time()
PollStart ==
    /\ poll.state = "idle"
    /\ poll' = [state |-> "polling", elapsed |-> 0, last |-> "none",
                outcome |-> "none"]
    /\ UNCHANGED << store, nextJob, msg, hostState, gpuVariant, pc, cur,
                    shutdown_flag, emptySamples, alarmState, alarmEvent,
                    faults, lastOp, stopsThisIdle, processingWrites, junk,
                    consecutive_errors, post >>

\* one iteration of the poll loop of the GPU adapter: the check of the
\* elapsed time, variant A's check of shutdown_flag, the status request that
\* takes dur seconds and brings reply, and the return or the sleep
PollIteration(reply, dur) ==
    LET v == Variant("gpu") IN
    /\ poll.state = "polling"
    /\ poll' =
          IF TimedOut(v, poll.elapsed)
          THEN [poll EXCEPT !.state = "done", !.outcome = "timeout"]
          ELSE IF v = "A" /\ shutdown_flag["gpu"]
          THEN [poll EXCEPT !.state = "done", !.outcome = "shutdown"]
          ELSE IF reply \in {"completed", "failed"}
          THEN [state |-> "done", outcome |-> "report", last |-> reply,
                elapsed |-> Min(poll.elapsed + dur, MaxClock)]
          ELSE [poll EXCEPT !.last = reply,
                            !.elapsed = Min(@ + dur + SleepAfter(v, reply),
                                            MaxClock)]
    /\ UNCHANGED << store, nextJob, msg, hostState, gpuVariant, pc, cur,
                    shutdown_flag, emptySamples, alarmState, alarmEvent,
                    faults, lastOp, stopsThisIdle, processingWrites, junk,
                    consecutive_errors, post >>

\* process_task goes on with what the poll returned or raised
PollReturn ==
    /\ poll.state = "done"
    /\ poll' = NoPoll
    /\ UNCHANGED << store, nextJob, msg, hostState, gpuVariant, pc, cur,
                    shutdown_flag, emptySamples, alarmState, alarmEvent,
                    faults, lastOp, stopsThisIdle, processingWrites, junk,
                    consecutive_errors, post >>

PollStep == \E r \in Replies, d \in GetDurations : PollIteration(r, d)

\* the polls of the GPU adapter, with any reply to any status request and a
\* signal at any time (variant B installs no handler: a signal ends the
\* process and the poll with it)
PollNext ==
    \/ PollStart
    \/ PollStep
    \/ PollReturn
    \/ Variant("gpu") = "A" /\ Signal("gpu")

\* every call inside the loop has a timeout (the status request GET_TIMEOUT,
\* the sleeps 2 or 5 s): the loop keeps taking its next iteration
SpecPoll ==
    /\ Init
    /\ [][PollNext]_vars
    /\ WF_vars(PollStep)

\* C36: the engine poll always terminates.  It returns as soon as a status
\* request brings completed or failed; otherwise it ends with the timeout
\* outcome once POLL_TIMEOUT seconds have elapsed (at the first check of the
\* clock after that, so never later than LastReading), whatever the replies:
\* errors every time, or pending, processing or an unknown status for ever.
\* The only other end is variant A's "Shutdown requested during polling",
\* raised when shutdown_flag is set and handled like the timeout.
C36_PollTerminates ==
    /\ [](poll.state = "polling"
             => /\ poll.last \notin {"completed", "failed"}
                /\ poll.elapsed <= LastReading)
    /\ [](poll.state = "done"
             => \/ /\ poll.outcome = "report"
                   /\ poll.last \in {"completed", "failed"}
                \/ /\ poll.outcome = "timeout"
                   /\ poll.last \notin {"completed", "failed"}
                   /\ poll.elapsed >= POLL_TIMEOUT
                   /\ poll.elapsed <= LastReading
                \/ /\ poll.outcome = "shutdown"
                   /\ Flagged("gpu"))
    /\ (poll.state = "polling") ~> (poll.state = "done")

\* a poll whose every status request failed has ended with the timeout
C36_Witness ==
    /\ poll.state = "done"
    /\ poll.outcome = "timeout"
    /\ poll.last = "error"
    /\ poll.elapsed >= POLL_TIMEOUT

(* --------------------------- the engine submit -------------------------- *)
\* what one POST to the engine can end in: the engine creates the job and
\* its reply arrives; the engine creates the job and the reply does not
\* arrive within the 30 s (or the connection drops): RequestException; the
\* engine is not reached or answers with an error status and creates no job:
\* RequestException
PostOutcomes == {"accepted", "lost", "refused"}

\* POST attempts of one submit: variant A posts once inside process_task's
\* try block, variant B's call_comfyui_api loops over range(MAX_RETRIES)
PostAttempts(variant) == IF variant = "A" THEN 1 ELSE MAX_RETRIES

\* process_task step 2 begins for the message the GPU adapter holds
PostStart ==
    /\ pc["gpu"] = "engine"
    /\ post.state = "idle"
    /\ post' = [state |-> "posting", attempt |-> 0, created |-> 0,
                result |-> "none"]
    /\ UNCHANGED << store, nextJob, msg, hostState, gpuVariant, pc, cur,
                    shutdown_flag, emptySamples, alarmState, alarmEvent,
                    faults, lastOp, stopsThisIdle, processingWrites, junk,
                    consecutive_errors, poll >>

\* one requests.post of the submit: its reply is returned, or the
\* RequestException is caught and the POST is made again while attempts are
\* left (variant B), or the submit has failed
PostAttempt(outcome) ==
    LET n == post.attempt + 1
        made == IF outcome \in {"accepted", "lost"} THEN 1 ELSE 0
    IN
    /\ post.state = "posting"
    /\ post' = [state |-> IF outcome = "accepted"
                             \/ n >= PostAttempts(Variant("gpu"))
                          THEN "done" ELSE "posting",
                attempt |-> n,
                created |-> post.created + made,
                result |-> IF outcome = "accepted" THEN "job"
                           ELSE IF n >= PostAttempts(Variant("gpu"))
                           THEN "error" ELSE "none"]
    /\ UNCHANGED << store, nextJob, msg, hostState, gpuVariant, pc, cur,
                    shutdown_flag, emptySamples, alarmState, alarmEvent,
                    faults, lastOp, stopsThisIdle, processingWrites, junk,
                    consecutive_errors, poll >>

\* process_task has left the engine step: the submit is over
PostReturn ==
    /\ pc["gpu"] # "engine"
    /\ post.state = "done"
    /\ post' = NoPost
    /\ UNCHANGED << store, nextJob, msg, hostState, gpuVariant, pc, cur,
                    shutdown_flag, emptySamples, alarmState, alarmEvent,
                    faults, lastOp, stopsThisIdle, processingWrites, junk,
                    consecutive_errors, poll >>

\* the GPU lane with the attempts of the engine submit spelled out: the rest
\* of the engine step follows the submit, with the outcome "unreachable"
\* exactly when the submit failed; the store and the queue answer
SubmitNext ==
    \/ \E r \in GpuRoutes : Submit(r, "ok")
    \/ \E j \in JobIds : Receive("gpu", j)
    \/ MarkProcessing("gpu", 0, TRUE)
    \/ PostStart
    \/ \E o \in PostOutcomes : PostAttempt(o)
    \/ /\ post.state = "done"
       /\ \E o \in EngineOutcomes :
             /\ o = "unreachable" <=> post.result = "error"
             /\ EngineStep("gpu", o, 0, TRUE)
    \/ PostReturn
    \/ DeleteMessage("gpu", TRUE, TRUE)
    \/ \E j \in JobIds : VisibilityTimeout(j)

SpecSubmit == Init /\ [][SubmitNext]_vars

\* C37: each delivery of a message creates at most one job at the engine:
\* within one processing attempt the adapter does not POST the request again
\* after a POST that the engine has accepted.
C37_OneEngineJobPerDelivery ==
    post.created <= 1

=============================================================================
